---- MODULE Spec2Model ----
(***************************************************************************)
(* Library management system: the JSON-backed Library of                   *)
(* src/library_system.py, the sqlite-backed Library of src/library.py over *)
(* src/database.py, and the Flask handlers of src/library_api.py.          *)
(*                                                                         *)
(* Identifiers are strings in the source; here a book id or member id is a *)
(* number of 1..MaxBooks / 1..MaxMembers standing for a distinct string.   *)
(* A Book is the record [book_id, title, author, available]; a Member of   *)
(* the JSON library is [name, member_id, borrowed_books] with              *)
(* borrowed_books a Python list.                                           *)
(* A table of the database is the collection of its rows: books and        *)
(* members are keyed by their PRIMARY KEY, borrowed_books is a bag of      *)
(* (member_id, book_id) rows, given as the number of copies of each row.   *)
(***************************************************************************)
EXTENDS Integers, Sequences, FiniteSets, TLC

VARIABLES
    impl,        \* which program runs: "json", "sqlite" or "api"
    books,       \* library_system.Library.books   (list of Book)
    members,     \* library_system.Library.members (list of Member)
    store,       \* content of the JSON data file written by save_data
    db,          \* the sqlite database: tables books, members, borrowed_books
    result,      \* the last call and how it ended: [op, outcome]
    req,         \* library_api: per request thread, the request it is serving
    everBorrowed \* library_api: the book ids some /borrow request has answered 200 for

vars == <<impl, books, members, store, db, result, req, everBorrowed>>

MaxBooks == 1
MaxMembers == 2
\* borrowed_books has no key, so its rows can repeat without limit; the
\* model stops inserting once the table holds MaxRows rows.
MaxRows == 2
\* request threads of the Flask server serving multi-statement requests
MaxThreads == 2

BookIds == 1..MaxBooks
MemberIds == 1..MaxMembers
Threads == 1..MaxThreads

(***************************************************************************)
(* Python list helpers.                                                    *)
(***************************************************************************)
\* x in list
In(x, s) == \E i \in 1..Len(s) : s[i] = x

\* the first of the indexes a scan of a list matches (0 when none)
FirstIndex(S) ==
    IF S = {} THEN 0 ELSE CHOOSE i \in S : \A j \in S : i <= j

\* the list without its element at index i
RemoveAt(s, i) == [j \in 1..(Len(s) - 1) |-> IF j < i THEN s[j] ELSE s[j + 1]]

\* list.remove(x): drops the first occurrence of x
ListRemove(s, x) == RemoveAt(s, FirstIndex({i \in 1..Len(s) : s[i] = x}))

(***************************************************************************)
(* Strings.  A character is its code point and a str is the sequence of    *)
(* its characters: 32 is the space, 65 and 66 are "A" and "B", 97 and 98   *)
(* are "a" and "b".                                                        *)
(***************************************************************************)
\* str.lower() of one character
Lower(c) == IF c \in 65..90 THEN c + 32 ELSE c

\* str.lower()
str_lower(s) == [i \in 1..Len(s) |-> Lower(s[i])]

\* str.strip(): the part from the first to the last character that is no space
str_strip(s) ==
    LET kept == {i \in 1..Len(s) : s[i] # 32}
    IN  IF kept = {} THEN <<>>
        ELSE SubSeq(s, CHOOSE i \in kept : \A j \in kept : i <= j,
                       CHOOSE i \in kept : \A j \in kept : j <= i)

\* q in s: q is a run of consecutive characters of s
str_contains(s, q) ==
    \E k \in 0..(Len(s) - Len(q)) : \A i \in 1..Len(q) : s[k + i] = q[i]

\* s < t: the order of str, by code point, a proper prefix first
str_less(s, t) ==
    \E k \in 0..Len(s) :
        /\ k <= Len(t)
        /\ \A i \in 1..k : s[i] = t[i]
        /\ IF k = Len(s) THEN k < Len(t)
           ELSE k < Len(t) /\ s[k + 1] < t[k + 1]

(***************************************************************************)
(* src/library_system.py: Book and Member                                  *)
(***************************************************************************)
\* library_system.Book(book_id, title, author, available): the setters keep
\* the title and the author stripped
Book_init(book_id, title, author, available) ==
    [book_id |-> book_id, title |-> str_strip(title), author |-> str_strip(author),
     available |-> available]

\* models.book.Book(book_id, title, author, available): the fields as passed
ModelsBook_init(book_id, title, author, available) ==
    [book_id |-> book_id, title |-> title, author |-> author, available |-> available]

\* Book(book_id, " a", "B"): available defaults to True.  Where the title and
\* the author play no part, every book is created with these two.
Book(book_id) == Book_init(book_id, <<32, 97>>, <<66>>, TRUE)

\* Member(name, member_id): borrowed_books starts empty.  Where the name plays
\* no part, every member is registered as "Alice".
Member(name, member_id) ==
    [name |-> name, member_id |-> member_id, borrowed_books |-> <<>>]

\* Book.borrow: raises BookNotAvailableError when not available
Book_borrow(book) ==
    IF ~book.available
    THEN [book |-> book, outcome |-> "BookNotAvailableError"]
    ELSE [book |-> [book EXCEPT !.available = FALSE], outcome |-> "ok"]

\* Book.return_book: marks the book available, whatever it was
Book_return_book(book) == [book EXCEPT !.available = TRUE]

\* Member.borrow_book that appends the id whatever the list holds
Member_borrow_book_Appends(member, book_id) ==
    [member EXCEPT !.borrowed_books = Append(@, book_id)]

\* Member.borrow_book that never records the id
Member_borrow_book_Forgets(member, book_id) == member

\* Member.borrow_book: appends the id unless it is already in the list
Member_borrow_book(member, book_id) ==
    IF In(book_id, member.borrowed_books)
    THEN member
    ELSE [member EXCEPT !.borrowed_books = Append(@, book_id)]

\* Member.return_book: removes the id when it is in the list
Member_return_book(member, book_id) ==
    IF In(book_id, member.borrowed_books)
    THEN [member EXCEPT !.borrowed_books = ListRemove(@, book_id)]
    ELSE member

(***************************************************************************)
(* src/library_system.py: Library                                          *)
(* Each operation is an operator from the lists to the lists after the     *)
(* call and its outcome ("ok" or the exception raised).                    *)
(***************************************************************************)
Outcome(bs, ms, o) == [books |-> bs, members |-> ms, outcome |-> o]

\* find_book: the position of the first book with that id
BookIndex(bs, book_id) == FirstIndex({i \in 1..Len(bs) : bs[i].book_id = book_id})

\* find_member: the position of the first member with that id
MemberIndex(ms, member_id) ==
    FirstIndex({i \in 1..Len(ms) : ms[i].member_id = member_id})

\* Book.to_dict
Book_to_dict(book) ==
    [book_id |-> book.book_id, title |-> book.title, author |-> book.author,
     available |-> book.available]

\* Book.from_dict: the constructor over the items of the dict
Book_from_dict(d) == Book_init(d.book_id, d.title, d.author, d.available)

\* the data file does not exist
NoFile == [file |-> "missing"]

\* the data file holds the beginning of a JSON document and not its end
Truncated == [file |-> "truncated"]

\* save_data: the document written, the dicts of the books and of the members
Library_save_data(bs, ms) ==
    [books |-> [i \in 1..Len(bs) |-> Book_to_dict(bs[i])],
     members |-> [i \in 1..Len(ms) |->
                     [name |-> ms[i].name, member_id |-> ms[i].member_id,
                      borrowed_books |-> ms[i].borrowed_books]]]

\* load_data on a Library whose lists are bs and ms: returns at once when the
\* file is missing or json.load raises JSONDecodeError; else rebuilds the
\* books and the members and restores the borrowed lists through member_map,
\* which keeps the last member of each id
Library_load_data(file, bs, ms) ==
    IF file \in {NoFile, Truncated}
    THEN [books |-> bs, members |-> ms]
    ELSE LET loaded == [i \in 1..Len(file.members) |->
                           Member(file.members[i].name, file.members[i].member_id)]
             Mapped(i) == \A j \in (i + 1)..Len(loaded) :
                              loaded[j].member_id # loaded[i].member_id
         IN  [books |-> [i \in 1..Len(file.books) |-> Book_from_dict(file.books[i])],
              members |-> [i \in 1..Len(loaded) |->
                              IF Mapped(i)
                              THEN [loaded[i] EXCEPT !.borrowed_books =
                                                        file.members[i].borrowed_books]
                              ELSE loaded[i]]]

\* add_book that appends without looking for the id
Library_add_book_Unchecked(bs, ms, book) == Outcome(Append(bs, book), ms, "ok")

\* add_book that lets the new record take the place of the one with its id
Library_add_book_Overwrites(bs, ms, book) ==
    IF \E i \in 1..Len(bs) : bs[i].book_id = book.book_id
    THEN Outcome([bs EXCEPT ![BookIndex(bs, book.book_id)] = book], ms, "ValueError")
    ELSE Outcome(Append(bs, book), ms, "ok")

Library_add_book(bs, ms, book) ==
    IF \E i \in 1..Len(bs) : bs[i].book_id = book.book_id
    THEN Outcome(bs, ms, "ValueError")
    ELSE Outcome(Append(bs, book), ms, "ok")

\* remove_book that returns quietly when no book has the id
Library_remove_book_Quiet(bs, ms, book_id) ==
    IF BookIndex(bs, book_id) = 0
    THEN Outcome(bs, ms, "ok")
    ELSE Outcome(RemoveAt(bs, BookIndex(bs, book_id)), ms, "ok")

\* remove_book that also takes the id out of every borrowed list
Library_remove_book_Cascades(bs, ms, book_id) ==
    IF BookIndex(bs, book_id) = 0
    THEN Outcome(bs, ms, "BookNotFoundError")
    ELSE Outcome(RemoveAt(bs, BookIndex(bs, book_id)),
                 [i \in 1..Len(ms) |-> Member_return_book(ms[i], book_id)],
                 "ok")

Library_remove_book(bs, ms, book_id) ==
    IF BookIndex(bs, book_id) = 0
    THEN Outcome(bs, ms, "BookNotFoundError")
    ELSE Outcome(RemoveAt(bs, BookIndex(bs, book_id)), ms, "ok")

\* register_member that lets the new member take the place of the one with
\* its id
Library_register_member_Replaces(bs, ms, member) ==
    IF \E i \in 1..Len(ms) : ms[i].member_id = member.member_id
    THEN Outcome(bs, [ms EXCEPT ![MemberIndex(ms, member.member_id)] = member],
                 "ValueError")
    ELSE Outcome(bs, Append(ms, member), "ok")

Library_register_member(bs, ms, member) ==
    IF \E i \in 1..Len(ms) : ms[i].member_id = member.member_id
    THEN Outcome(bs, ms, "ValueError")
    ELSE Outcome(bs, Append(ms, member), "ok")

\* borrow_book that records the loan with the member before it looks the book up
Library_borrow_book_MemberFirst(bs, ms, member_id, book_id) ==
    LET mi == MemberIndex(ms, member_id)
        bi == BookIndex(bs, book_id)
        noted == IF mi = 0 THEN ms
                 ELSE [ms EXCEPT ![mi] = Member_borrow_book(@, book_id)]
    IN  IF mi = 0 THEN Outcome(bs, ms, "MemberNotFoundError")
        ELSE IF bi = 0 THEN Outcome(bs, noted, "BookNotFoundError")
        ELSE LET r == Book_borrow(bs[bi])
             IN  IF r.outcome # "ok" THEN Outcome(bs, ms, r.outcome)
                 ELSE Outcome([bs EXCEPT ![bi] = r.book], noted, "ok")

Library_borrow_book(bs, ms, member_id, book_id) ==
    LET mi == MemberIndex(ms, member_id)
        bi == BookIndex(bs, book_id)
    IN  IF mi = 0 THEN Outcome(bs, ms, "MemberNotFoundError")
        ELSE IF bi = 0 THEN Outcome(bs, ms, "BookNotFoundError")
        ELSE LET r == Book_borrow(bs[bi])
             IN  IF r.outcome # "ok" THEN Outcome(bs, ms, r.outcome)
                 ELSE Outcome([bs EXCEPT ![bi] = r.book],
                              [ms EXCEPT ![mi] = Member_borrow_book(@, book_id)],
                              "ok")

\* return_book that takes the id out of the list of every member
Library_return_book_Everyone(bs, ms, member_id, book_id) ==
    LET mi == MemberIndex(ms, member_id)
        bi == BookIndex(bs, book_id)
    IN  IF mi = 0 THEN Outcome(bs, ms, "MemberNotFoundError")
        ELSE IF bi = 0 THEN Outcome(bs, ms, "BookNotFoundError")
        ELSE Outcome([bs EXCEPT ![bi] = Book_return_book(@)],
                     [i \in 1..Len(ms) |-> Member_return_book(ms[i], book_id)],
                     "ok")

Library_return_book(bs, ms, member_id, book_id) ==
    LET mi == MemberIndex(ms, member_id)
        bi == BookIndex(bs, book_id)
    IN  IF mi = 0 THEN Outcome(bs, ms, "MemberNotFoundError")
        ELSE IF bi = 0 THEN Outcome(bs, ms, "BookNotFoundError")
        ELSE Outcome([bs EXCEPT ![bi] = Book_return_book(@)],
                     [ms EXCEPT ![mi] = Member_return_book(@, book_id)],
                     "ok")

(***************************************************************************)
(* The JSON library as a state machine: one action per Library call.       *)
(* A call that raises leaves the file alone; a call that returns has       *)
(* saved the lists.                                                        *)
(***************************************************************************)
JsonCall(op, r) ==
    /\ impl = "json"
    /\ books' = r.books
    /\ members' = r.members
    /\ store' = IF r.outcome = "ok" THEN Library_save_data(r.books, r.members) ELSE store
    /\ result' = [op |-> op, outcome |-> r.outcome]
    /\ UNCHANGED <<impl, db, req, everBorrowed>>

AddBook ==
    \E b \in BookIds : JsonCall("add_book", Library_add_book(books, members, Book(b)))

RemoveBook ==
    \E b \in BookIds : JsonCall("remove_book", Library_remove_book(books, members, b))

RegisterMember ==
    \E m \in MemberIds :
        JsonCall("register_member",
                 Library_register_member(books, members, Member("Alice", m)))

BorrowBook ==
    \E m \in MemberIds, b \in BookIds :
        JsonCall("borrow_book", Library_borrow_book(books, members, m, b))

ReturnBook ==
    \E m \in MemberIds, b \in BookIds :
        JsonCall("return_book", Library_return_book(books, members, m, b))

\* the process starts again: Library.__init__ empties the lists and loads
\* the data file
Restart ==
    LET l == Library_load_data(store, <<>>, <<>>)
    IN  /\ impl = "json"
        /\ books' = l.books
        /\ members' = l.members
        /\ result' = [op |-> "load_data", outcome |-> "ok"]
        /\ UNCHANGED <<impl, store, db, req, everBorrowed>>

(***************************************************************************)
(* src/database.py: Database                                               *)
(***************************************************************************)
None == [none |-> TRUE]

Pairs == MemberIds \X BookIds

\* create_tables on a new file: three empty tables
Database_create_tables ==
    [books |-> {}, members |-> {}, borrowed_books |-> [p \in Pairs |-> 0]]

RowCount(d) ==
    LET RECURSIVE Sum(_)
        Sum(S) == IF S = {} THEN 0
                  ELSE LET p == CHOOSE q \in S : TRUE
                       IN  d.borrowed_books[p] + Sum(S \ {p})
    IN  Sum(Pairs)

\* find_book: the row with that book_id, or None
Database_find_book(d, book_id) ==
    IF \E r \in d.books : r.book_id = book_id
    THEN CHOOSE r \in d.books : r.book_id = book_id
    ELSE None

\* find_member: the row with that member_id, or None
Database_find_member(d, member_id) ==
    IF \E r \in d.members : r.member_id = member_id
    THEN CHOOSE r \in d.members : r.member_id = member_id
    ELSE None

\* add_book: INSERT; book_id is the PRIMARY KEY, a second row with it is
\* refused with sqlite3.IntegrityError and the transaction rolled back
Database_add_book(d, book) ==
    IF \E r \in d.books : r.book_id = book.book_id
    THEN [db |-> d, outcome |-> "IntegrityError"]
    ELSE [db |-> [d EXCEPT !.books = @ \cup {book}], outcome |-> "ok"]

\* remove_book: DELETE FROM books WHERE book_id = ?
Database_remove_book(d, book_id) ==
    [d EXCEPT !.books = {r \in @ : r.book_id # book_id}]

\* add_member / the INSERT of Library.register_member: member_id is the
\* PRIMARY KEY, a second row with it is refused with sqlite3.IntegrityError
Database_add_member(d, member) ==
    IF \E r \in d.members : r.member_id = member.member_id
    THEN [db |-> d, outcome |-> "IntegrityError"]
    ELSE [db |-> [d EXCEPT !.members = @ \cup {[member_id |-> member.member_id,
                                                 name |-> member.name]}],
          outcome |-> "ok"]

\* update_book_availability: UPDATE books SET available = ? WHERE book_id = ?
Database_update_book_availability(d, book_id, available) ==
    [d EXCEPT !.books = {IF r.book_id = book_id
                         THEN [r EXCEPT !.available = available]
                         ELSE r : r \in @}]

\* INSERT INTO borrowed_books (member_id, book_id)
InsertBorrowed(d, member_id, book_id) ==
    [d EXCEPT !.borrowed_books[<<member_id, book_id>>] = @ + 1]

\* DELETE FROM borrowed_books WHERE member_id = ? AND book_id = ?
DeleteBorrowed(d, member_id, book_id) ==
    [d EXCEPT !.borrowed_books[<<member_id, book_id>>] = 0]

\* return_book: the DELETE, then update_book_availability(book_id, True)
Database_return_book(d, member_id, book_id) ==
    Database_update_book_availability(DeleteBorrowed(d, member_id, book_id),
                                      book_id, TRUE)

(***************************************************************************)
(* src/library.py: Library over the Database                               *)
(***************************************************************************)
DbOutcome(d, o) == [db |-> d, outcome |-> o]

SqlLibrary_add_book(d, book) == Database_add_book(d, book)

SqlLibrary_remove_book(d, book_id) ==
    IF Database_find_book(d, book_id) = None
    THEN DbOutcome(d, "BookNotFoundError")
    ELSE DbOutcome(Database_remove_book(d, book_id), "ok")

SqlLibrary_register_member(d, member) == Database_add_member(d, member)

SqlLibrary_borrow_book(d, member_id, book_id) ==
    IF Database_find_member(d, member_id) = None
    THEN DbOutcome(d, "MemberNotFoundError")
    ELSE IF Database_find_book(d, book_id) = None
    THEN DbOutcome(d, "BookNotFoundError")
    ELSE IF ~Database_find_book(d, book_id).available
    THEN DbOutcome(d, "BookNotAvailableError")
    ELSE DbOutcome(InsertBorrowed(
                       Database_update_book_availability(d, book_id, FALSE),
                       member_id, book_id),
                   "ok")

\* return_book looks the book up and never the member
SqlLibrary_return_book(d, member_id, book_id) ==
    IF Database_find_book(d, book_id) = None
    THEN DbOutcome(d, "BookNotFoundError")
    ELSE DbOutcome(DeleteBorrowed(
                       Database_update_book_availability(d, book_id, TRUE),
                       member_id, book_id),
                   "ok")

(***************************************************************************)
(* The sqlite library as a state machine: one action per Library call,     *)
(* each call one transaction.                                              *)
(***************************************************************************)
SqlCall(op, r) ==
    /\ impl = "sqlite"
    /\ db' = r.db
    /\ result' = [op |-> op, outcome |-> r.outcome]
    /\ UNCHANGED <<impl, books, members, store, req, everBorrowed>>

SqlAddBook ==
    \E b \in BookIds : SqlCall("add_book", SqlLibrary_add_book(db, Book(b)))

SqlRemoveBook ==
    \E b \in BookIds : SqlCall("remove_book", SqlLibrary_remove_book(db, b))

SqlRegisterMember ==
    \E m \in MemberIds :
        SqlCall("register_member", SqlLibrary_register_member(db, Member("Alice", m)))

\* a borrow that would insert is taken only while the table has room
SqlBorrowBook ==
    \E m \in MemberIds, b \in BookIds :
        /\ SqlLibrary_borrow_book(db, m, b).outcome = "ok" => RowCount(db) < MaxRows
        /\ SqlCall("borrow_book", SqlLibrary_borrow_book(db, m, b))

SqlReturnBook ==
    \E m \in MemberIds, b \in BookIds :
        SqlCall("return_book", SqlLibrary_return_book(db, m, b))

(***************************************************************************)
(* src/library_api.py: the Flask handlers over one shared Database.        *)
(* The server answers requests on concurrent threads that share the one    *)
(* sqlite connection (check_same_thread=False), so every statement a       *)
(* handler executes is visible to the other threads at once, and threads   *)
(* interleave between statements.  A handler that executes one statement   *)
(* is one action; /borrow, /return and DELETE /books/<id> execute several  *)
(* and are one action per statement, the handler's local tests merged      *)
(* into the statement before them.  A statement that fails (the INSERT of  *)
(* a duplicate key) changes nothing.                                       *)
(***************************************************************************)
Idle == [pc |-> "idle", op |-> "none", member_id |-> 0, book_id |-> 0,
         member |-> None, fresh |-> FALSE, response |-> "none"]

\* thread t starts serving op: its record while the handler runs
Serving(t, op, pc, m, b, member) ==
    [pc |-> pc, op |-> op, member_id |-> m, book_id |-> b,
     member |-> member, fresh |-> b \notin everBorrowed, response |-> "none"]

\* the handler of thread t returns its response
Respond(t, response) ==
    [req[t] EXCEPT !.pc = "idle", !.member = None, !.response = response]

ApiStep(t, r, d) ==
    /\ impl = "api"
    /\ req' = [req EXCEPT ![t] = r]
    /\ db' = d
    /\ UNCHANGED <<impl, books, members, store, result>>

\* rows of borrowed_books that name book_id
BorrowedRows(d, book_id) ==
    LET RECURSIVE Sum(_)
        Sum(S) == IF S = {} THEN 0
                  ELSE LET m == CHOOSE q \in S : TRUE
                       IN  d.borrowed_books[<<m, book_id>>] + Sum(S \ {m})
    IN  Sum(MemberIds)

\* requests on their way to the INSERT of /borrow
Borrowing == {t \in Threads : req[t].pc \in {"borrow_find_book", "borrow_insert"}}

\* POST /borrow, line 56: member = db.find_member(member_id)
ApiBorrowFindMember(t) ==
    \E m \in MemberIds, b \in BookIds :
        /\ req[t].pc = "idle"
        /\ RowCount(db) + Cardinality(Borrowing) < MaxRows
        /\ ApiStep(t, Serving(t, "borrow", "borrow_find_book", m, b,
                              Database_find_member(db, m)), db)
        /\ UNCHANGED everBorrowed

\* POST /borrow, lines 57-64: book = db.find_book(book_id) and the tests
ApiBorrowFindBook(t) ==
    /\ req[t].pc = "borrow_find_book"
    /\ LET book == Database_find_book(db, req[t].book_id)
       IN  ApiStep(t,
                   IF req[t].member = None THEN Respond(t, "Member not found")
                   ELSE IF book = None THEN Respond(t, "Book not found")
                   ELSE IF ~book.available THEN Respond(t, "Book not available")
                   ELSE [req[t] EXCEPT !.pc = "borrow_insert"],
                   db)
    /\ UNCHANGED everBorrowed

\* POST /borrow, lines 67-71: the INSERT, committed on leaving the with block
ApiBorrowInsert(t) ==
    /\ req[t].pc = "borrow_insert"
    /\ ApiStep(t, [req[t] EXCEPT !.pc = "borrow_update"],
               InsertBorrowed(db, req[t].member_id, req[t].book_id))
    /\ UNCHANGED everBorrowed

\* POST /borrow, lines 72-73: update_book_availability(book_id, False), 200
ApiBorrowUpdate(t) ==
    /\ req[t].pc = "borrow_update"
    /\ ApiStep(t, Respond(t, "Book borrowed"),
               Database_update_book_availability(db, req[t].book_id, FALSE))
    /\ everBorrowed' = everBorrowed \cup {req[t].book_id}

\* POST /return, line 82: member = db.find_member(member_id)
ApiReturnFindMember(t) ==
    \E m \in MemberIds, b \in BookIds :
        /\ req[t].pc = "idle"
        /\ ApiStep(t, Serving(t, "return", "return_find_book", m, b,
                              Database_find_member(db, m)), db)
        /\ UNCHANGED everBorrowed

\* POST /return, lines 83-86: book = db.find_book(book_id) and the test
ApiReturnFindBook(t) ==
    /\ req[t].pc = "return_find_book"
    /\ LET book == Database_find_book(db, req[t].book_id)
       IN  ApiStep(t,
                   IF req[t].member = None \/ book = None
                   THEN Respond(t, "Member or Book not found")
                   ELSE [req[t] EXCEPT !.pc = "return_delete"],
                   db)
    /\ UNCHANGED everBorrowed

\* Database.return_book, lines 148-151: the DELETE
ApiReturnDelete(t) ==
    /\ req[t].pc = "return_delete"
    /\ ApiStep(t, [req[t] EXCEPT !.pc = "return_update"],
               DeleteBorrowed(db, req[t].member_id, req[t].book_id))
    /\ UNCHANGED everBorrowed

\* Database.return_book, line 152: update_book_availability(book_id, True), 200
ApiReturnUpdate(t) ==
    /\ req[t].pc = "return_update"
    /\ ApiStep(t, Respond(t, "Book returned"),
               Database_update_book_availability(db, req[t].book_id, TRUE))
    /\ UNCHANGED everBorrowed

\* DELETE /books/<book_id>, lines 26-28: find_book and the test
ApiRemoveFindBook(t) ==
    \E b \in BookIds :
        /\ req[t].pc = "idle"
        /\ LET r == Serving(t, "remove", "remove_delete", 0, b, None)
           IN  ApiStep(t,
                       IF Database_find_book(db, b) = None
                       THEN [r EXCEPT !.pc = "idle", !.response = "Book not found"]
                       ELSE r,
                       db)
        /\ UNCHANGED everBorrowed

\* DELETE /books/<book_id>, lines 29-30: db.remove_book(book_id)
ApiRemoveDelete(t) ==
    /\ req[t].pc = "remove_delete"
    /\ ApiStep(t, Respond(t, "Book removed"), Database_remove_book(db, req[t].book_id))
    /\ UNCHANGED everBorrowed

\* a handler that executes one statement
ApiCall(op, r) ==
    /\ impl = "api"
    /\ db' = r.db
    /\ result' = [op |-> op, outcome |-> r.outcome]
    /\ UNCHANGED <<impl, books, members, store, req, everBorrowed>>

\* POST /books: db.add_book with available True
ApiAddBook ==
    \E b \in BookIds : ApiCall("add_book", Database_add_book(db, Book(b)))

\* POST /members: db.add_member
ApiRegisterMember ==
    \E m \in MemberIds :
        ApiCall("register_member",
                Database_add_member(db, [member_id |-> m, name |-> "Alice"]))

\* get_available_books: SELECT * FROM books WHERE available = 1
Database_get_available_books(d) == {r.book_id : r \in {x \in d.books : x.available}}

\* get_borrowed_books: borrowed_books JOIN books JOIN members.  The answer
\* gives, for every row the SELECT returns, how many times it returns it: a
\* row of borrowed_books joins with the book and the member of its ids, and
\* with nothing when one of them is gone.
Database_get_borrowed_books(d) ==
    LET joined == {[book_id |-> b.book_id, title |-> b.title, author |-> b.author,
                    member_id |-> m.member_id, member_name |-> m.name] :
                       b \in d.books, m \in d.members}
        rows == {r \in joined :
                    /\ <<r.member_id, r.book_id>> \in DOMAIN d.borrowed_books
                    /\ d.borrowed_books[<<r.member_id, r.book_id>>] > 0}
    IN  [r \in rows |-> d.borrowed_books[<<r.member_id, r.book_id>>]]

\* a handler that answers with the rows of one SELECT
ApiRead(op, rows) ==
    /\ impl = "api"
    /\ result' = [op |-> op, outcome |-> "ok", rows |-> rows]
    /\ UNCHANGED <<impl, books, members, store, db, req, everBorrowed>>

\* GET /books/available
ApiGetAvailableBooks ==
    ApiRead("get_available_books", Database_get_available_books(db))

\* GET /borrowed
ApiListBorrowed ==
    ApiRead("list_borrowed", Database_get_borrowed_books(db))

Init ==
    /\ impl \in {"json", "sqlite"}
    /\ books = <<>>
    /\ members = <<>>
    /\ store = NoFile
    /\ db = Database_create_tables
    /\ result = [op |-> "init", outcome |-> "ok"]
    /\ req = [t \in Threads |-> Idle]
    /\ everBorrowed = {}

Next ==
    \/ AddBook
    \/ RemoveBook
    \/ RegisterMember
    \/ BorrowBook
    \/ ReturnBook
    \/ Restart
    \/ SqlAddBook
    \/ SqlRemoveBook
    \/ SqlRegisterMember
    \/ SqlBorrowBook
    \/ SqlReturnBook

Spec == Init /\ [][Next]_vars

\* the Flask server on a new database file
InitApi ==
    /\ impl = "api"
    /\ books = <<>>
    /\ members = <<>>
    /\ store = NoFile
    /\ db = Database_create_tables
    /\ result = [op |-> "init", outcome |-> "ok"]
    /\ req = [t \in Threads |-> Idle]
    /\ everBorrowed = {}

NextApi ==
    \/ ApiAddBook
    \/ ApiRegisterMember
    \/ ApiGetAvailableBooks
    \/ ApiListBorrowed
    \/ \E t \in Threads :
        \/ ApiBorrowFindMember(t)
        \/ ApiBorrowFindBook(t)
        \/ ApiBorrowInsert(t)
        \/ ApiBorrowUpdate(t)
        \/ ApiReturnFindMember(t)
        \/ ApiReturnFindBook(t)
        \/ ApiReturnDelete(t)
        \/ ApiReturnUpdate(t)
        \/ ApiRemoveFindBook(t)
        \/ ApiRemoveDelete(t)

SpecApi == InitApi /\ [][NextApi]_vars

(***************************************************************************)
(* The JSON library on a file system whose writes can fail: atomic_write   *)
(* and the calls of save_data.                                             *)
(***************************************************************************)
\* where the write of the data file fails: nowhere, at open(tmp), in the
\* body (json.dump raises with part of the document written), or at
\* f.close() / os.replace
Faults == {"none", "open", "body", "replace"}

\* atomic_write(path) around a body that writes content: the file at path
\* after the with statement, and how the statement ended.
\*   open fails: f is unbound, the NameError of f.close() is swallowed by
\*     except Exception and the error of open propagates;
\*   the body raises: finally closes tmp and os.replace puts it at path,
\*     then the error propagates;
\*   f.close() or os.replace raises: except Exception removes tmp and
\*     nothing is raised.
atomic_write(file, content, fault) ==
    CASE fault = "none" -> [file |-> content, outcome |-> "ok"]
      [] fault = "open" -> [file |-> file, outcome |-> "OSError"]
      [] fault = "body" -> [file |-> Truncated, outcome |-> "OSError"]
      [] fault = "replace" -> [file |-> file, outcome |-> "ok"]

\* a Library call on this file system: the lists change as the call changes
\* them, and save_data runs when the call gets that far
StoreCall(op, r, fault) ==
    LET w == atomic_write(store, Library_save_data(r.books, r.members), fault)
    IN  /\ impl = "json"
        /\ books' = r.books
        /\ members' = r.members
        /\ store' = IF r.outcome = "ok" THEN w.file ELSE store
        /\ result' = [op |-> op,
                      outcome |-> IF r.outcome = "ok" THEN w.outcome ELSE r.outcome]
        /\ UNCHANGED <<impl, db, req, everBorrowed>>

StoreAddBook ==
    \E b \in BookIds, f \in Faults :
        StoreCall("add_book", Library_add_book(books, members, Book(b)), f)

StoreRemoveBook ==
    \E b \in BookIds, f \in Faults :
        StoreCall("remove_book", Library_remove_book(books, members, b), f)

StoreRegisterMember ==
    \E m \in MemberIds, f \in Faults :
        StoreCall("register_member",
                  Library_register_member(books, members, Member("Alice", m)), f)

StoreBorrowBook ==
    \E m \in MemberIds, b \in BookIds, f \in Faults :
        StoreCall("borrow_book", Library_borrow_book(books, members, m, b), f)

StoreReturnBook ==
    \E m \in MemberIds, b \in BookIds, f \in Faults :
        StoreCall("return_book", Library_return_book(books, members, m, b), f)

InitStore ==
    /\ impl = "json"
    /\ books = <<>>
    /\ members = <<>>
    /\ store = NoFile
    /\ db = Database_create_tables
    /\ result = [op |-> "init", outcome |-> "ok"]
    /\ req = [t \in Threads |-> Idle]
    /\ everBorrowed = {}

NextStore ==
    \/ StoreAddBook
    \/ StoreRemoveBook
    \/ StoreRegisterMember
    \/ StoreBorrowBook
    \/ StoreReturnBook
    \/ Restart

SpecStore == InitStore /\ [][NextStore]_vars

(***************************************************************************)
(* The two libraries with members registered under a name of their own.    *)
(***************************************************************************)
MaxNamed == 1

NamedIds == 1..MaxNamed

\* the names callers register members under
Names == {"Alice", "Bob"}

NamedRegisterMember ==
    \E m \in NamedIds, n \in Names :
        JsonCall("register_member",
                 Library_register_member(books, members, Member(n, m)))

SqlNamedRegisterMember ==
    \E m \in NamedIds, n \in Names :
        SqlCall("register_member", SqlLibrary_register_member(db, Member(n, m)))

\* titles the callers of the registry pass: "a", "b"
BookTitles == {<<97>>, <<98>>}

TitledAddBook ==
    \E b \in BookIds, t \in BookTitles :
        JsonCall("add_book", Library_add_book(books, members, Book_init(b, t, <<66>>, TRUE)))

SqlTitledAddBook ==
    \E b \in BookIds, t \in BookTitles :
        SqlCall("add_book", SqlLibrary_add_book(db, ModelsBook_init(b, t, <<66>>, TRUE)))

\* library.Library.list_borrowed_books: the same SELECT as get_borrowed_books
SqlLibrary_list_borrowed_books(d) == Database_get_borrowed_books(d)

\* run_console, choice 10: for every member and every id of its list, a line
\* with the title of the book and the name and id of the member; an id that
\* find_book does not find is passed over
Console_list_borrowed(bs, ms) ==
    LET RECURSIVE Lines(_, _)
        Lines(i, k) ==
            IF k = 0
            THEN IF i = 1 THEN <<>>
                 ELSE Lines(i - 1, Len(ms[i - 1].borrowed_books))
            ELSE LET bi == BookIndex(bs, ms[i].borrowed_books[k])
                 IN  IF bi = 0 THEN Lines(i, k - 1)
                     ELSE Append(Lines(i, k - 1),
                                 [title |-> bs[bi].title, member_name |-> ms[i].name,
                                  member_id |-> ms[i].member_id])
    IN  IF ms = <<>> THEN <<>>
        ELSE Lines(Len(ms), Len(ms[Len(ms)].borrowed_books))

\* a listing answers with rows and changes nothing
ListCall(rows) ==
    /\ result' = [op |-> "list_borrowed", outcome |-> "ok", rows |-> rows]
    /\ UNCHANGED <<impl, books, members, store, db, req, everBorrowed>>

ListBorrowed == impl = "json" /\ ListCall(Console_list_borrowed(books, members))

SqlListBorrowed == impl = "sqlite" /\ ListCall(SqlLibrary_list_borrowed_books(db))

NextRegistry ==
    \/ AddBook
    \/ RemoveBook
    \/ NamedRegisterMember
    \/ BorrowBook
    \/ ReturnBook
    \/ Restart
    \/ SqlAddBook
    \/ SqlRemoveBook
    \/ SqlNamedRegisterMember
    \/ SqlBorrowBook
    \/ SqlReturnBook
    \/ ListBorrowed
    \/ SqlListBorrowed
    \/ TitledAddBook
    \/ SqlTitledAddBook

SpecRegistry == Init /\ [][NextRegistry]_vars

(***************************************************************************)
(* The catalog with titles and authors: add_book, remove_book and          *)
(* search_books of the JSON library and of the sqlite library, over books  *)
(* that carry their title and author.                                      *)
(***************************************************************************)
MaxCatalog == 2

CatalogIds == 1..MaxCatalog

\* the titles callers pass: "a", "Ab" and " a"
TitleInputs == {<<97>>, <<65, 98>>, <<32, 97>>}

\* the authors callers pass: "B" and "a"
AuthorInputs == {<<66>>, <<97>>}

\* the queries callers pass: "", "a", "A", "b", "aB" and "bb"
Queries == {<<>>, <<97>>, <<65>>, <<98>>, <<97, 66>>, <<98, 98>>}

\* sorted(matches, key=lambda x: x.title): a stable sort, books of equal
\* title stay in the order of the list
SortedByTitle(s) ==
    LET RECURSIVE Sort(_)
        Sort(n) ==
            IF n = 0 THEN <<>>
            ELSE LET done == Sort(n - 1)
                     p == Cardinality({i \in 1..Len(done) :
                                          ~str_less(s[n].title, done[i].title)})
                 IN  [i \in 1..n |-> IF i <= p THEN done[i]
                                     ELSE IF i = p + 1 THEN s[n]
                                     ELSE done[i - 1]]
    IN  Sort(Len(s))

\* the books of a list that pass a test, in the order of the list
Matching(bs, q) ==
    LET RECURSIVE Filter(_)
        Filter(n) ==
            IF n = 0 THEN <<>>
            ELSE IF \/ str_contains(str_lower(bs[n].title), q)
                    \/ str_contains(str_lower(bs[n].author), q)
                 THEN Append(Filter(n - 1), bs[n])
                 ELSE Filter(n - 1)
    IN  Filter(Len(bs))

\* search_books that compares the query as typed
Library_search_books_AsTyped(bs, query) == SortedByTitle(Matching(bs, query))

\* library_system.Library.search_books
Library_search_books(bs, query) == SortedByTitle(Matching(bs, str_lower(query)))

\* get_books: SELECT * FROM books
Database_get_books(d) == d.books

\* library.Library.search_books: the rows of get_books that match; the
\* SELECT has no ORDER BY, so the rows are a set here
SqlLibrary_search_books(d, query) ==
    {r \in Database_get_books(d) :
        \/ str_contains(str_lower(r.title), str_lower(query))
        \/ str_contains(str_lower(r.author), str_lower(query))}

\* Database.search_books: LOWER(title) LIKE '%q%' OR LOWER(author) LIKE '%q%'
\* with q = query.lower(); none of the characters here is a LIKE wildcard
Database_search_books(d, query) ==
    {r \in d.books :
        \/ str_contains(str_lower(r.title), str_lower(query))
        \/ str_contains(str_lower(r.author), str_lower(query))}

\* a search answers with rows and changes nothing
SearchCall(op, q, rows) ==
    /\ result' = [op |-> op, outcome |-> "ok", query |-> q, rows |-> rows]
    /\ UNCHANGED <<impl, books, members, store, db, req, everBorrowed>>

CatAddBook ==
    \E b \in CatalogIds, t \in TitleInputs, a \in AuthorInputs, av \in BOOLEAN :
        JsonCall("add_book", Library_add_book(books, members, Book_init(b, t, a, av)))

CatRemoveBook ==
    \E b \in CatalogIds :
        JsonCall("remove_book", Library_remove_book(books, members, b))

CatSearchBooks ==
    \E q \in Queries :
        /\ impl = "json"
        /\ SearchCall("search_books", q, Library_search_books(books, q))

CatSqlAddBook ==
    \E b \in CatalogIds, t \in TitleInputs, a \in AuthorInputs, av \in BOOLEAN :
        SqlCall("add_book", SqlLibrary_add_book(db, ModelsBook_init(b, t, a, av)))

CatSqlRemoveBook ==
    \E b \in CatalogIds : SqlCall("remove_book", SqlLibrary_remove_book(db, b))

CatSqlSearchBooks ==
    \E q \in Queries :
        /\ impl = "sqlite"
        /\ SearchCall("search_books", q, SqlLibrary_search_books(db, q))

\* GET /books/search?q=...: db.search_books(q)
CatDbSearchBooks ==
    \E q \in Queries :
        /\ impl = "sqlite"
        /\ SearchCall("db_search_books", q, Database_search_books(db, q))

NextCatalog ==
    \/ CatAddBook
    \/ CatRemoveBook
    \/ CatSearchBooks
    \/ CatSqlAddBook
    \/ CatSqlRemoveBook
    \/ CatSqlSearchBooks
    \/ CatDbSearchBooks

SpecCatalog == Init /\ [][NextCatalog]_vars

\* ---------------------------------------------------------------------------
\* Generated ids.  Here an id is a string, written as the sequence of its code
\* points: 48..57 are "0".."9", 66 is "B", 77 is "M", 97 "a", 98 "b", and 178
\* is the superscript two, a character str.isdigit accepts and int rejects.

MaxIdBooks == 2

MaxIdMembers == 1

\* the console stops handing out ids above this number
MaxSuffix == 10

AsciiDigits == 48..57

\* characters of the model's alphabet for which str.isdigit is true
IsDigitChars == AsciiDigits \cup {178}

\* s.isdigit(): at least one character and every character a digit
str_isdigit(s) == s # <<>> /\ \A i \in 1..Len(s) : s[i] \in IsDigitChars

\* int(s) of a string str.isdigit accepts: the decimal value, and ValueError
\* when a character is not a decimal digit
RECURSIVE int(_)
int(s) == IF s = <<>> THEN 0 ELSE 10 * int(SubSeq(s, 1, Len(s) - 1)) + (s[Len(s)] - 48)

int_raises(s) == \E i \in 1..Len(s) : s[i] \notin AsciiDigits

\* str(n), as the f-string formats it: decimal, no leading zero
RECURSIVE str(_)
str(n) == IF n < 10 THEN <<48 + n>> ELSE Append(str(n \div 10), 48 + (n % 10))

\* s.startswith(c) for a one-character prefix
str_startswith(s, c) == s # <<>> /\ s[1] = c

Maximum(S) == CHOOSE n \in S : \A k \in S : k <= n

\* next id that numbers from the count of the numbered ids
next_id_Counts(ids, prefix) ==
    LET numbered == {i \in 1..Len(ids) : /\ str_startswith(ids[i], prefix)
                                         /\ str_isdigit(Tail(ids[i]))}
    IN  IF \E i \in numbered : int_raises(Tail(ids[i]))
        THEN [outcome |-> "ValueError", id |-> <<>>]
        ELSE [outcome |-> "ok", id |-> <<prefix>> \o str(Cardinality(numbered) + 1)]

\* the body next_book_id and next_member_id share: the numbers of the ids
\* that start with the prefix and whose rest isdigit, then the prefix with 1
\* when there is none and with max + 1 otherwise; int raises on the way when
\* the rest of such an id is not decimal
next_id(ids, prefix) ==
    LET numbered == {i \in 1..Len(ids) : /\ str_startswith(ids[i], prefix)
                                         /\ str_isdigit(Tail(ids[i]))}
        numbers == {int(Tail(ids[i])) : i \in numbered}
    IN  IF \E i \in numbered : int_raises(Tail(ids[i]))
        THEN [outcome |-> "ValueError", id |-> <<>>]
        ELSE IF numbers = {}
        THEN [outcome |-> "ok", id |-> <<prefix, 49>>]
        ELSE [outcome |-> "ok", id |-> <<prefix>> \o str(Maximum(numbers) + 1)]

Library_next_book_id(bs) == next_id([i \in 1..Len(bs) |-> bs[i].book_id], 66)

Library_next_member_id(ms) == next_id([i \in 1..Len(ms) |-> ms[i].member_id], 77)

\* run_console, choice 1: next_book_id is called outside the try, so what it
\* raises ends the console; what add_book raises is printed as an error
Console_add_book(bs, ms) ==
    LET r == Library_next_book_id(bs)
    IN  IF r.outcome # "ok" THEN Outcome(bs, ms, "uncaught ValueError")
        ELSE Library_add_book(bs, ms, Book(r.id))

\* run_console, choice 3
Console_register_member(bs, ms, name) ==
    LET r == Library_next_member_id(ms)
    IN  IF r.outcome # "ok" THEN Outcome(bs, ms, "uncaught ValueError")
        ELSE Library_register_member(bs, ms, Member(name, r.id))

\* Book(book_id, title, author) as a caller writes it: the three setters raise
\* ValueError for an id, a title or an author that is empty or blank
Book_new(book_id, title, author) ==
    IF str_strip(book_id) = <<>> \/ str_strip(title) = <<>> \/ str_strip(author) = <<>>
    THEN [outcome |-> "ValueError", book |-> None]
    ELSE [outcome |-> "ok", book |-> Book_init(book_id, title, author, TRUE)]

\* lib.add_book(Book(book_id, title, author))
Library_add_new_book(bs, ms, book_id, title, author) ==
    LET c == Book_new(book_id, title, author)
    IN  IF c.outcome = "ok" THEN Library_add_book(bs, ms, c.book)
        ELSE Outcome(bs, ms, c.outcome)

\* ids a caller of add_book passes: "B1", "B09", "B" and superscript two,
\* "B", "Ba", "b1", "" and " "
BookIdInputs ==
    {<<66, 49>>, <<66, 48, 57>>, <<66, 178>>, <<66>>, <<66, 97>>, <<98, 49>>, <<>>, <<32>>}

\* titles and authors a caller of add_book passes: " a", " " and "B", ""
IdTitleInputs == {<<32, 97>>, <<32>>}

IdAuthorInputs == {<<66>>, <<>>}

\* ids a caller of register_member passes: "M1", "M09", ""
MemberIdInputs == {<<77, 49>>, <<77, 48, 57>>, <<>>}

\* names a caller of register_member passes
MemberNames == {"Alice", ""}

\* the number next_id would hand out stays within MaxSuffix
WithinSuffix(r) == r.outcome = "ok" => int(Tail(r.id)) <= MaxSuffix

IdAddBook ==
    /\ Len(books) < MaxIdBooks
    /\ \E b \in BookIdInputs, t \in IdTitleInputs, a \in IdAuthorInputs :
           JsonCall("add_book", Library_add_new_book(books, members, b, t, a))

IdRemoveBook ==
    \E i \in 1..Len(books) :
        JsonCall("remove_book", Library_remove_book(books, members, books[i].book_id))

IdRegisterMember ==
    /\ Len(members) < MaxIdMembers
    /\ \E m \in MemberIdInputs, n \in MemberNames :
           JsonCall("register_member",
                    Library_register_member(books, members, Member(n, m)))

ConsoleAddBook ==
    /\ Len(books) < MaxIdBooks
    /\ WithinSuffix(Library_next_book_id(books))
    /\ JsonCall("console_add_book", Console_add_book(books, members))

ConsoleRegisterMember ==
    /\ Len(members) < MaxIdMembers
    /\ WithinSuffix(Library_next_member_id(members))
    /\ JsonCall("console_register_member",
                Console_register_member(books, members, "Alice"))

InitIds ==
    /\ impl = "json"
    /\ books = <<>>
    /\ members = <<>>
    /\ store = NoFile
    /\ db = Database_create_tables
    /\ result = [op |-> "init", outcome |-> "ok"]
    /\ req = [t \in Threads |-> Idle]
    /\ everBorrowed = {}

NextIds ==
    \/ IdAddBook
    \/ IdRemoveBook
    \/ IdRegisterMember
    \/ ConsoleAddBook
    \/ ConsoleRegisterMember

SpecIds == InitIds /\ [][NextIds]_vars

\* ---------------------------------------------------------------------------
\* Lending with two books and two members, in both libraries.

LendBookIds == {1, 2}

LendMemberIds == {1, 2}

\* rows one member and one book may have in borrowed_books before the model
\* stops taking borrows that insert another
MaxLendRows == 1

LendAddBook ==
    \E b \in LendBookIds : JsonCall("add_book", Library_add_book(books, members, Book(b)))

LendRemoveBook ==
    \E b \in LendBookIds : JsonCall("remove_book", Library_remove_book(books, members, b))

LendRegisterMember ==
    \E m \in LendMemberIds :
        JsonCall("register_member",
                 Library_register_member(books, members, Member("Alice", m)))

LendBorrowBook ==
    \E m \in LendMemberIds, b \in LendBookIds :
        JsonCall("borrow_book", Library_borrow_book(books, members, m, b))

LendReturnBook ==
    \E m \in LendMemberIds, b \in LendBookIds :
        JsonCall("return_book", Library_return_book(books, members, m, b))

SqlLendAddBook ==
    \E b \in LendBookIds : SqlCall("add_book", SqlLibrary_add_book(db, Book(b)))

SqlLendRemoveBook ==
    \E b \in LendBookIds : SqlCall("remove_book", SqlLibrary_remove_book(db, b))

SqlLendRegisterMember ==
    \E m \in LendMemberIds :
        SqlCall("register_member", SqlLibrary_register_member(db, Member("Alice", m)))

SqlLendBorrowBook ==
    \E m \in LendMemberIds, b \in LendBookIds :
        /\ SqlLibrary_borrow_book(db, m, b).outcome = "ok"
           => db.borrowed_books[<<m, b>>] < MaxLendRows
        /\ SqlCall("borrow_book", SqlLibrary_borrow_book(db, m, b))

SqlLendReturnBook ==
    \E m \in LendMemberIds, b \in LendBookIds :
        SqlCall("return_book", SqlLibrary_return_book(db, m, b))

InitLending ==
    /\ impl \in {"json", "sqlite"}
    /\ books = <<>>
    /\ members = <<>>
    /\ store = NoFile
    /\ db = [books |-> {}, members |-> {},
             borrowed_books |-> [p \in LendMemberIds \X LendBookIds |-> 0]]
    /\ result = [op |-> "init", outcome |-> "ok"]
    /\ req = [t \in Threads |-> Idle]
    /\ everBorrowed = {}

NextLending ==
    \/ LendAddBook
    \/ LendRemoveBook
    \/ LendRegisterMember
    \/ LendBorrowBook
    \/ LendReturnBook
    \/ Restart
    \/ SqlLendAddBook
    \/ SqlLendRemoveBook
    \/ SqlLendRegisterMember
    \/ SqlLendBorrowBook
    \/ SqlLendReturnBook

SpecLending == InitLending /\ [][NextLending]_vars

(***************************************************************************)
(* Properties.  A borrow-link is a book id in a member's borrowed_books    *)
(* (JSON library) or a row of borrowed_books (database).                   *)
(***************************************************************************)
NotFound == {"MemberNotFoundError", "BookNotFoundError"}

\* the members of the JSON library that hold book_id, by position in the list
Holders(ms, book_id) == {i \in 1..Len(ms) : In(book_id, ms[i].borrowed_books)}

JsonLinked(ms, book_id) == Holders(ms, book_id) # {}

\* member member_id of the JSON library holds book_id
JsonHolds(ms, member_id, book_id) ==
    /\ MemberIndex(ms, member_id) # 0
    /\ In(book_id, ms[MemberIndex(ms, member_id)].borrowed_books)

DbLinked(d, book_id) == BorrowedRows(d, book_id) > 0

DbHasBook(d, book_id) == Database_find_book(d, book_id) # None

DbHasMember(d, member_id) == Database_find_member(d, member_id) # None

\* C1: for every book of the catalog, available is false if and only if a
\* borrow-link for its book_id exists, after every sequence of calls.
C1_AvailableIffNoLink ==
    /\ impl = "json" =>
         \A i \in 1..Len(books) :
             ~books[i].available <=> JsonLinked(members, books[i].book_id)
    /\ impl = "sqlite" =>
         \A r \in db.books : ~r.available <=> DbLinked(db, r.book_id)

\* C2: at most one borrow-link per book_id: no two members hold the same
\* book, and no book_id has two borrowed_books rows.
C2_AtMostOneLink ==
    /\ impl = "json" => \A b \in BookIds : Cardinality(Holders(members, b)) <= 1
    /\ impl = "sqlite" => \A b \in BookIds : BorrowedRows(db, b) <= 1

\* C5: borrow(member_id, book_id) with the member registered and the book in
\* the catalog and available succeeds, and afterwards the book is unavailable
\* and the link (member_id, book_id) exists.
C5_BorrowSucceeds ==
    \A m \in MemberIds, b \in BookIds :
        /\ (/\ impl = "json"
            /\ MemberIndex(members, m) # 0
            /\ BookIndex(books, b) # 0
            /\ books[BookIndex(books, b)].available)
           => LET r == Library_borrow_book(books, members, m, b)
              IN  /\ r.outcome = "ok"
                  /\ ~r.books[BookIndex(r.books, b)].available
                  /\ JsonHolds(r.members, m, b)
        /\ (/\ impl = "sqlite"
            /\ DbHasMember(db, m)
            /\ DbHasBook(db, b)
            /\ Database_find_book(db, b).available)
           => LET r == SqlLibrary_borrow_book(db, m, b)
              IN  /\ r.outcome = "ok"
                  /\ ~Database_find_book(r.db, b).available
                  /\ r.db.borrowed_books[<<m, b>>] > 0

\* a borrow has just succeeded: some book is unavailable and linked to a member
C5_Witness ==
    /\ result = [op |-> "borrow_book", outcome |-> "ok"]
    /\ \/ /\ impl = "json"
          /\ \E m \in MemberIds, b \in BookIds :
                 /\ JsonHolds(members, m, b)
                 /\ ~books[BookIndex(books, b)].available
       \/ /\ impl = "sqlite"
          /\ \E m \in MemberIds, b \in BookIds :
                 /\ db.borrowed_books[<<m, b>>] > 0
                 /\ DbHasBook(db, b)
                 /\ ~Database_find_book(db, b).available

\* C6: borrow(member_id, book_id) fails with a not-found error when the
\* member or the book does not exist, and leaves every availability flag and
\* every borrowed set as they were.
C6_BorrowNotFound ==
    \A m \in MemberIds, b \in BookIds :
        /\ (impl = "json" /\ (MemberIndex(members, m) = 0 \/ BookIndex(books, b) = 0))
           => LET r == Library_borrow_book(books, members, m, b)
              IN  /\ r.outcome \in NotFound
                  /\ r.books = books
                  /\ r.members = members
        /\ (impl = "sqlite" /\ (~DbHasMember(db, m) \/ ~DbHasBook(db, b)))
           => LET r == SqlLibrary_borrow_book(db, m, b)
              IN  /\ r.outcome \in NotFound
                  /\ r.db = db

\* C6 for POST /borrow (under SpecApi): the request that finds no member or
\* no book answers not found, and its handler writes nothing.
ApiBorrowNotFoundKeepsState ==
    [][\A t \in Threads :
          (/\ req[t].pc = "borrow_find_book"
           /\ req'[t].pc = "idle"
           /\ (req[t].member = None \/ ~DbHasBook(db, req[t].book_id)))
          => /\ req'[t].response \in {"Member not found", "Book not found"}
             /\ db' = db]_vars

\* a borrow has just failed for a missing book while a member is registered
\* and holds a book, or a book of the catalog is on loan
C6_Witness ==
    /\ result.op = "borrow_book"
    /\ result.outcome \in NotFound
    /\ \/ /\ impl = "json"
          /\ \E i \in 1..Len(members) : members[i].borrowed_books # <<>>
       \/ /\ impl = "sqlite"
          /\ RowCount(db) > 0

\* C7: borrow(m, b) for a book that is on loan (a borrow-link for b exists)
\* is rejected with the not-available error and changes nothing, also when
\* the borrower is m itself.
C7_BorrowOnLoanRejected ==
    \A m \in MemberIds, b \in BookIds :
        /\ (/\ impl = "json"
            /\ MemberIndex(members, m) # 0
            /\ BookIndex(books, b) # 0
            /\ JsonLinked(members, b))
           => LET r == Library_borrow_book(books, members, m, b)
              IN  /\ r.outcome = "BookNotAvailableError"
                  /\ r.books = books
                  /\ r.members = members
        /\ (/\ impl = "sqlite"
            /\ DbHasMember(db, m)
            /\ DbHasBook(db, b)
            /\ DbLinked(db, b))
           => LET r == SqlLibrary_borrow_book(db, m, b)
              IN  /\ r.outcome = "BookNotAvailableError"
                  /\ r.db = db

\* C8: when borrow(m, b) succeeds, return_book(m, b) right after it restores
\* the state before the borrow exactly.
C8_BorrowReturnRoundTrip ==
    \A m \in MemberIds, b \in BookIds :
        /\ impl = "json" =>
             LET r1 == Library_borrow_book(books, members, m, b)
                 r2 == Library_return_book(r1.books, r1.members, m, b)
             IN  r1.outcome = "ok" =>
                     /\ r2.outcome = "ok"
                     /\ r2.books = books
                     /\ r2.members = members
        /\ impl = "sqlite" =>
             LET r1 == SqlLibrary_borrow_book(db, m, b)
                 r2 == SqlLibrary_return_book(r1.db, m, b)
             IN  r1.outcome = "ok" =>
                     /\ r2.outcome = "ok"
                     /\ r2.db = db

\* C9: return_book(m, b) with member and book present and no link (m, b) is
\* a no-op that reports success: no flag and no link changes, also when b is
\* on loan to another member.
C9_ReturnWithoutLinkNoOp ==
    \A m \in MemberIds, b \in BookIds :
        /\ (/\ impl = "json"
            /\ MemberIndex(members, m) # 0
            /\ BookIndex(books, b) # 0
            /\ ~JsonHolds(members, m, b))
           => LET r == Library_return_book(books, members, m, b)
              IN  /\ r.outcome = "ok"
                  /\ r.books = books
                  /\ r.members = members
        /\ (/\ impl = "sqlite"
            /\ DbHasMember(db, m)
            /\ DbHasBook(db, b)
            /\ db.borrowed_books[<<m, b>>] = 0)
           => LET r == SqlLibrary_return_book(db, m, b)
              IN  /\ r.outcome = "ok"
                  /\ r.db = db

\* C10: return_book(member_id, book_id) fails with a not-found error when the
\* member or the book does not exist, and then changes no flag and no link.
C10_ReturnNotFound ==
    \A m \in MemberIds, b \in BookIds :
        /\ (impl = "json" /\ (MemberIndex(members, m) = 0 \/ BookIndex(books, b) = 0))
           => LET r == Library_return_book(books, members, m, b)
              IN  /\ r.outcome \in NotFound
                  /\ r.books = books
                  /\ r.members = members
        /\ (impl = "sqlite" /\ (~DbHasMember(db, m) \/ ~DbHasBook(db, b)))
           => LET r == SqlLibrary_return_book(db, m, b)
              IN  /\ r.outcome \in NotFound
                  /\ r.db = db

\* thread t has answered a /borrow for a book no /borrow had succeeded on when
\* it began, with both the member and the book found
BorrowAnswered(t) ==
    /\ req[t].pc = "idle"
    /\ req[t].op = "borrow"
    /\ req[t].fresh
    /\ req[t].response \in {"Book borrowed", "Book not available"}

\* C3: of two concurrent borrow calls for the same available, never-borrowed
\* book exactly one succeeds, the other fails with the not-available error,
\* and exactly one borrow-link for the book exists afterwards.
C3_OneBorrowWins ==
    \A t1, t2 \in Threads :
        (/\ t1 # t2
         /\ BorrowAnswered(t1)
         /\ BorrowAnswered(t2)
         /\ req[t1].book_id = req[t2].book_id)
        => /\ {req[t1].response, req[t2].response}
                = {"Book borrowed", "Book not available"}
           /\ BorrowedRows(db, req[t1].book_id) = 1

\* a request is between the two writes of a borrow or a return of book_id
MidCommit(book_id) ==
    \E t \in Threads : /\ req[t].book_id = book_id
                       /\ req[t].pc \in {"borrow_update", "return_update"}

\* the book is in the catalog with a link while marked available, or without
\* a link while marked unavailable
Torn(book_id) ==
    /\ DbHasBook(db, book_id)
    /\ Database_find_book(db, book_id).available <=> DbLinked(db, book_id)

\* a reader's request is answered
ReadStep == result'.op \in {"get_available_books", "list_borrowed"}

\* C4: a borrow or return commits all-or-nothing: no reader is answered from
\* a state where the book of a borrow or return in progress has a link while
\* marked available, or no link while marked unavailable.
C4_ReadersSeeNoTornState ==
    [][ReadStep => \A b \in BookIds : MidCommit(b) => ~Torn(b)]_vars

\* the errors a create call raises for an id that is taken
DuplicateId == {"ValueError", "IntegrityError"}

\* C11: add_book with a book_id that is already in the catalog fails with a
\* duplicate-id error and leaves the catalog as it was: the book on record
\* keeps its title, author and availability and no second record is added.
C11_AddDuplicateRejected ==
    \A b \in CatalogIds, t \in TitleInputs, a \in AuthorInputs, av \in BOOLEAN :
        /\ (impl = "json" /\ BookIndex(books, b) # 0)
           => LET r == Library_add_book(books, members, Book_init(b, t, a, av))
              IN  /\ r.outcome \in DuplicateId
                  /\ r.books = books
                  /\ r.members = members
        /\ (impl = "sqlite" /\ DbHasBook(db, b))
           => LET r == SqlLibrary_add_book(db, ModelsBook_init(b, t, a, av))
              IN  /\ r.outcome \in DuplicateId
                  /\ r.db = db

\* an add_book has just been refused as a duplicate and the catalog holds a
\* book
C11_Witness ==
    /\ result.op = "add_book"
    /\ result.outcome \in DuplicateId
    /\ \/ impl = "json" /\ Len(books) > 0 /\ store = Library_save_data(books, members)
       \/ impl = "sqlite" /\ db.books # {}

\* C12: add_book with a book_id that is not in the catalog succeeds, the
\* catalog grows by exactly that one book, and the new book is stored with
\* available = true whatever the caller passed.
C12_AddNewBookAvailable ==
    \A b \in CatalogIds, t \in TitleInputs, a \in AuthorInputs, av \in BOOLEAN :
        /\ (impl = "json" /\ BookIndex(books, b) = 0)
           => LET r == Library_add_book(books, members, Book_init(b, t, a, av))
              IN  /\ r.outcome = "ok"
                  /\ Len(r.books) = Len(books) + 1
                  /\ SubSeq(r.books, 1, Len(books)) = books
                  /\ r.books[Len(r.books)].book_id = b
                  /\ r.books[Len(r.books)].available
        /\ (impl = "sqlite" /\ ~DbHasBook(db, b))
           => LET r == SqlLibrary_add_book(db, ModelsBook_init(b, t, a, av))
              IN  /\ r.outcome = "ok"
                  /\ db.books \subseteq r.db.books
                  /\ Cardinality(r.db.books) = Cardinality(db.books) + 1
                  /\ \A x \in r.db.books \ db.books : x.book_id = b /\ x.available

\* the borrow-links of the database
DbLinks(d) == d.borrowed_books

\* C13: remove_book with a book_id that is not in the catalog fails with a
\* not-found error and leaves books, members and borrow-links unchanged.
C13_RemoveMissingRejected ==
    \A b \in BookIds :
        /\ (impl = "json" /\ BookIndex(books, b) = 0)
           => LET r == Library_remove_book(books, members, b)
              IN  /\ r.outcome = "BookNotFoundError"
                  /\ r.books = books
                  /\ r.members = members
        /\ (impl = "sqlite" /\ ~DbHasBook(db, b))
           => LET r == SqlLibrary_remove_book(db, b)
              IN  /\ r.outcome = "BookNotFoundError"
                  /\ r.db = db

\* a remove_book has just failed for a missing book while a member still
\* holds a borrow-link
C13_Witness ==
    /\ result = [op |-> "remove_book", outcome |-> "BookNotFoundError"]
    /\ \/ /\ impl = "json"
          /\ \E i \in 1..Len(members) : members[i].borrowed_books # <<>>
          /\ store = Library_save_data(books, members)
       \/ /\ impl = "sqlite"
          /\ RowCount(db) > 0

\* C14: remove_book on a book of the catalog succeeds whether or not the book
\* is on loan; the book leaves the catalog and every borrow-link stays in
\* place, the link of a book on loan orphaned.
C14_RemoveOrphansLink ==
    \A b \in BookIds :
        /\ (impl = "json" /\ BookIndex(books, b) # 0)
           => LET r == Library_remove_book(books, members, b)
              IN  /\ r.outcome = "ok"
                  /\ Len(r.books) = Len(books) - 1
                  /\ \A i \in 1..Len(r.books) :
                         r.books[i].book_id # b /\ In(r.books[i], books)
                  /\ r.members = members
        /\ (impl = "sqlite" /\ DbHasBook(db, b))
           => LET r == SqlLibrary_remove_book(db, b)
              IN  /\ r.outcome = "ok"
                  /\ r.db.books = db.books \ {Database_find_book(db, b)}
                  /\ r.db.members = db.members
                  /\ DbLinks(r.db) = DbLinks(db)

\* a book on loan has just been removed: its borrow-link is still there and
\* the catalog no longer has the book
C14_Witness ==
    /\ result = [op |-> "remove_book", outcome |-> "ok"]
    /\ \E b \in BookIds :
           \/ /\ impl = "json"
              /\ JsonLinked(members, b)
              /\ BookIndex(books, b) = 0
           \/ /\ impl = "sqlite"
              /\ DbLinked(db, b)
              /\ ~DbHasBook(db, b)

\* C15: register_member with a member_id that is already registered fails
\* with a duplicate-id error and leaves the member's name and borrowed set,
\* and the rest of the state, unchanged.
C15_RegisterDuplicateRejected ==
    \A m \in MemberIds, n \in Names :
        /\ (impl = "json" /\ MemberIndex(members, m) # 0)
           => LET r == Library_register_member(books, members, Member(n, m))
              IN  /\ r.outcome \in DuplicateId
                  /\ r.members = members
                  /\ r.books = books
        /\ (impl = "sqlite" /\ DbHasMember(db, m))
           => LET r == SqlLibrary_register_member(db, Member(n, m))
              IN  /\ r.outcome \in DuplicateId
                  /\ r.db = db

\* a register_member has just been refused as a duplicate while a
\* registered member holds a book
C15_Witness ==
    /\ result.op = "register_member"
    /\ result.outcome \in DuplicateId
    /\ \/ /\ impl = "json"
          /\ \E i \in 1..Len(members) : members[i].borrowed_books # <<>>
       \/ /\ impl = "sqlite"
          /\ db.members # {}
          /\ RowCount(db) > 0

\* C16: after any sequence of calls, successful or failed, a new Library
\* loaded from the data file has exactly the state of the running one: the
\* same books with the same availability flags, the same members, the same
\* borrowed lists.
C16_ReloadYieldsSameState ==
    impl = "json" =>
        Library_load_data(store, <<>>, <<>>) = [books |-> books, members |-> members]

\* the calls that change the library
MutatingOps == {"add_book", "remove_book", "register_member", "borrow_book",
                "return_book"}

\* C17: when the write of the new version fails part-way, the data file keeps
\* its old content: the file changes only to a completely written new
\* version, in a call that succeeds.
C17_FileReplacedOnlyByFullVersion ==
    [][store' # store =>
          /\ store' = Library_save_data(books', members')
          /\ result'.outcome = "ok"]_vars

\* C18: a persistence failure in a mutating call is reported and the call
\* does not partially apply: when the call returns success the data file
\* holds the state after the call, and when it fails the lists in memory are
\* as before the call.
C18_NoPartialApplication ==
    [][result'.op \in MutatingOps =>
          /\ result'.outcome = "ok" => store' = Library_save_data(books', members')
          /\ result'.outcome # "ok" => books' = books /\ members' = members]_vars

\* two characters are the same letter, in whatever case
SameLetter(c, d) ==
    \/ c = d
    \/ c \in 65..90 /\ d = c + 32
    \/ d \in 65..90 /\ c = d + 32

\* q is a run of consecutive characters of s, letter for letter
ContainsIgnoringCase(s, q) ==
    \E k \in 0..(Len(s) - Len(q)) : \A i \in 1..Len(q) : SameLetter(s[k + i], q[i])

\* the title or the author of the book contains the query
Matches(book, q) ==
    ContainsIgnoringCase(book.title, q) \/ ContainsIgnoringCase(book.author, q)

Before(x, y) ==
    \/ str_less(x.title, y.title)
    \/ x.title = y.title /\ x.book_id < y.book_id

\* C20: the result of search_books is in ascending order of title, books of
\* equal title in order of book_id, whatever the order the books were added
\* in.
C20_SearchOrdered ==
    (impl = "json" /\ result.op = "search_books")
    => \A i, j \in 1..Len(result.rows) :
           i < j => Before(result.rows[i], result.rows[j])

\* the borrow-links of the JSON library: entry k of the list of member i
JsonLinks(ms) ==
    UNION {{<<i, k>> : k \in 1..Len(ms[i].borrowed_books)} : i \in 1..Len(ms)}

\* C21: list_borrowed returns exactly one row per active borrow-link, and
\* each row carries the ids of its link with the title and author of that
\* book and the name of that member; no active link is missing.
C21_ListBorrowedExact ==
    /\ (impl = "sqlite" /\ result.op = "list_borrowed")
       => /\ \A p \in Pairs :
                 db.borrowed_books[p] > 0
                 => \E r \in DOMAIN result.rows :
                        /\ r.member_id = p[1]
                        /\ r.book_id = p[2]
                        /\ result.rows[r] = 1
          /\ \A r \in DOMAIN result.rows :
                 /\ db.borrowed_books[<<r.member_id, r.book_id>>] > 0
                 /\ \E b \in db.books :
                        b.book_id = r.book_id /\ b.title = r.title /\ b.author = r.author
                 /\ \E m \in db.members :
                        m.member_id = r.member_id /\ m.name = r.member_name
    /\ (impl = "json" /\ result.op = "list_borrowed")
       => /\ Len(result.rows) = Cardinality(JsonLinks(members))
          /\ \A p \in JsonLinks(members) :
                 LET bi == BookIndex(books, members[p[1]].borrowed_books[p[2]])
                 IN  /\ bi # 0
                     /\ \E j \in 1..Len(result.rows) :
                            /\ result.rows[j].member_id = members[p[1]].member_id
                            /\ result.rows[j].member_name = members[p[1]].name
                            /\ result.rows[j].title = books[bi].title

\* the ids of a list that start with the prefix and go on with decimal digits only
Numbered(ids, prefix) ==
    {i \in 1..Len(ids) : /\ str_startswith(ids[i], prefix)
                         /\ Len(ids[i]) > 1
                         /\ ~int_raises(Tail(ids[i]))}

\* the prefix followed by one more than the largest number among the ids, by 1 when none is numbered
Expected(ids, prefix) ==
    LET numbers == {int(Tail(ids[i])) : i \in Numbered(ids, prefix)}
    IN  <<prefix>> \o str(IF numbers = {} THEN 1 ELSE Maximum(numbers) + 1)

\* C22: next_book_id and next_member_id return the prefix (B or M) followed by
\* n, where n is one more than the largest numeric suffix among the existing
\* ids that start with the prefix and have an all-digit suffix, and 1 when
\* there is no such id.
C22_NextIdIsMaxPlusOne ==
    /\ Library_next_book_id(books) =
           [outcome |-> "ok",
            id |-> Expected([i \in 1..Len(books) |-> books[i].book_id], 66)]
    /\ Library_next_member_id(members) =
           [outcome |-> "ok",
            id |-> Expected([i \in 1..Len(members) |-> members[i].member_id], 77)]

\* C28: the id next_book_id returns is the book_id of no book of the catalog
\* and the id next_member_id returns is the id of no registered member, so
\* adding with a generated id never fails as a duplicate.
C28_GeneratedIdIsFresh ==
    /\ LET r == Library_next_book_id(books)
       IN  r.outcome = "ok"
           => /\ \A i \in 1..Len(books) : books[i].book_id # r.id
              /\ Library_add_book(books, members, Book(r.id)).outcome = "ok"
    /\ LET r == Library_next_member_id(members)
       IN  r.outcome = "ok"
           => /\ \A i \in 1..Len(members) : members[i].member_id # r.id
              /\ Library_register_member(books, members, Member("Alice", r.id)).outcome = "ok"
    /\ result.op \in {"console_add_book", "console_register_member"}
       => result.outcome # "ValueError"

\* the console has added "B10" to a catalog that held "B09"
C28_Witness ==
    /\ result = [op |-> "console_add_book", outcome |-> "ok"]
    /\ Len(books) = 2
    /\ books[1].book_id = <<66, 48, 57>>
    /\ books[2].book_id = <<66, 49, 48>>

\* C23: after any sequence of operations no two books share a book_id and no
\* two members share a member_id, in the lists of the JSON library and in the
\* tables of the sqlite library.
C23_IdsUnique ==
    /\ \A i, j \in 1..Len(books) : books[i].book_id = books[j].book_id => i = j
    /\ \A i, j \in 1..Len(members) : members[i].member_id = members[j].member_id => i = j
    /\ \A r, q \in db.books : r.book_id = q.book_id => r = q
    /\ \A r, q \in db.members : r.member_id = q.member_id => r = q

\* a second book with the id of a catalog book, under another title, has just been refused
C23_Witness ==
    /\ result.op = "add_book"
    /\ result.outcome \in DuplicateId
    /\ \/ Len(books) = 1 /\ books[1].title = <<98>> /\ Len(members) = 1
       \/ \E r \in db.books : r.title = <<98>> /\ db.members # {}

\* C24: loading a corrupt store surfaces an error to the caller; the library
\* does not start silently with empty lists over a store it could not read.
C24_CorruptLoadSurfaced ==
    (result.op = "load_data" /\ store = Truncated) => result.outcome # "ok"

\* C25: every book of the catalog has a non-empty book_id, title and author
\* and every member a non-empty member_id and name; add_book and
\* register_member let in nothing that would break this.
C25_FieldsNonEmpty ==
    /\ \A i \in 1..Len(books) :
           /\ books[i].book_id # <<>>
           /\ books[i].title # <<>>
           /\ books[i].author # <<>>
    /\ \A i \in 1..Len(members) :
           /\ members[i].member_id # <<>>
           /\ members[i].name # ""

\* the lists after a call differ from the lists before it in nothing but the
\* available flag of book b and the borrowed list of member m
JsonFrame(bs, ms, r, m, b) ==
    /\ Len(r.books) = Len(bs)
    /\ \A i \in 1..Len(bs) :
           /\ [r.books[i] EXCEPT !.available = bs[i].available] = bs[i]
           /\ bs[i].book_id # b => r.books[i] = bs[i]
    /\ Len(r.members) = Len(ms)
    /\ \A i \in 1..Len(ms) :
           /\ [r.members[i] EXCEPT !.borrowed_books = ms[i].borrowed_books] = ms[i]
           /\ ms[i].member_id # m => r.members[i] = ms[i]

\* the same for the tables: rows of borrowed_books stand for the borrowed sets
DbFrame(d, e, m, b) ==
    /\ e.members = d.members
    /\ {[r EXCEPT !.available = TRUE] : r \in e.books} =
           {[r EXCEPT !.available = TRUE] : r \in d.books}
    /\ {r \in e.books : r.book_id # b} = {r \in d.books : r.book_id # b}
    /\ DOMAIN e.borrowed_books = DOMAIN d.borrowed_books
    /\ \A p \in DOMAIN d.borrowed_books :
           p[1] # m => e.borrowed_books[p] = d.borrowed_books[p]

\* C26: a successful borrow(m, b) or return_book(m, b) changes only the
\* available flag of book b and the borrowed set of member m; the set of
\* books, the set of members, the flag of every other book and the borrowed
\* set of every other member stay as they were.
C26_BorrowReturnFrame ==
    \A m \in LendMemberIds, b \in LendBookIds :
        /\ LET r == Library_borrow_book(books, members, m, b)
           IN  r.outcome = "ok" => JsonFrame(books, members, r, m, b)
        /\ LET r == Library_return_book(books, members, m, b)
           IN  r.outcome = "ok" => JsonFrame(books, members, r, m, b)
        /\ LET r == SqlLibrary_borrow_book(db, m, b)
           IN  r.outcome = "ok" => DbFrame(db, r.db, m, b)
        /\ LET r == SqlLibrary_return_book(db, m, b)
           IN  r.outcome = "ok" => DbFrame(db, r.db, m, b)

\* a return has just succeeded while the other book is out with the other member
C26_Witness ==
    /\ result = [op |-> "return_book", outcome |-> "ok"]
    /\ \/ /\ Len(books) = 2 /\ Len(members) = 2
          /\ \E i \in 1..2 : ~books[i].available
          /\ \E i \in 1..2 : members[i].borrowed_books # <<>>
       \/ /\ Cardinality(db.books) = 2 /\ Cardinality(db.members) = 2
          /\ \E r \in db.books : ~r.available
          /\ \E p \in DOMAIN db.borrowed_books : db.borrowed_books[p] > 0

\* C27: in the JSON library no member's borrowed_books list holds the same
\* book_id twice, also when the book is returned by a member who had not
\* borrowed it and then borrowed again by the member who still holds it.
C27_NoDuplicateInBorrowedList ==
    \A i \in 1..Len(members) :
        \A j, k \in 1..Len(members[i].borrowed_books) :
            members[i].borrowed_books[j] = members[i].borrowed_books[k] => j = k

\* a member holds book 1, another member has just returned it, and the holder
\* can borrow it again; the borrow leaves the holder's list as it is
C27_Witness ==
    /\ impl = "json"
    /\ result = [op |-> "return_book", outcome |-> "ok"]
    /\ \E i \in 1..Len(members) :
           LET r == Library_borrow_book(books, members, members[i].member_id, 1)
           IN  /\ In(1, members[i].borrowed_books)
               /\ r.outcome = "ok"
               /\ r.members[i].borrowed_books = members[i].borrowed_books

====
